---- MODULE Spec2Model ----
(***************************************************************************)
(* Model of manim/cli/new/group.py: the `new project` and `new scene`      *)
(* commands, select_resolution and update_cfg.                             *)
(*                                                                         *)
(* Python values are tagged records [t, v] so that str() is a real         *)
(* conversion; None and the empty string (both falsy) are "".  A config    *)
(* file is a function section -> (key -> string).  A text file is a        *)
(* sequence of string tokens; "\n\n\n" is one token.                       *)
(***************************************************************************)
EXTENDS Integers, Sequences, FiniteSets, TLC

VARIABLES
    qualities,        \* the QUALITIES table, in dict order
    choice,           \* last label typed at the resolution prompt
    resolution,       \* last value returned by select_resolution()
    res_status,       \* "none" | "ok" | "InvalidChoice"
    pc,               \* position of the running command
    args,             \* click arguments of the running command
    default_settings, \* the -d/--default flag
    project_name,     \* local of project()
    template_name,    \* local of project() and scene()
    new_cfg,          \* local of project()
    ki,               \* index of the CFG_DEFAULTS key the loop is at
    confirmed,        \* history: click.confirm returned True in this run
    dirs,             \* project directories on disk
    calls,            \* history: finished project runs
    ops,              \* history: file-system mutations, in order
    files,            \* source files in the working directory
    files0,           \* history: the files before the first scene run
    scene,            \* local of scene(): the specialized block
    scene_calls       \* history: finished scene runs

vars == <<qualities, choice, resolution, res_status, pc, args, default_settings,
          project_name, template_name, new_cfg, ki, confirmed, dirs, calls,
          ops, files, files0, scene, scene_calls>>

res_vars == <<choice, resolution, res_status>>
project_locals == <<args, default_settings, project_name, template_name, new_cfg,
                    ki, confirmed>>
scene_vars == <<files, files0, scene, scene_calls>>

----------------------------------------------------------------------------
(* Bounds *)

MaxProjectRuns == 2
MaxSceneRuns == 3
MaxTiers == 5

----------------------------------------------------------------------------
(* Python values *)

PyInt(n) == [t |-> "int", v |-> n]
PyStr(s) == [t |-> "str", v |-> s]

\* str(value) for the scalar values the program stringifies
str(value) == IF value.t = "int" THEN ToString(value.v) ELSE value.v

SetKey(f, k, v) == [x \in DOMAIN f \cup {k} |-> IF x = k THEN v ELSE f[x]]

EmptyDict == [k \in {} |-> PyStr("")]

----------------------------------------------------------------------------
(* CFG_DEFAULTS, in insertion order *)

CFG_KEYS == <<"frame_rate", "background_color", "background_opacity",
              "scene_names", "resolution">>

CFG_DEFAULTS ==
    [frame_rate         |-> PyInt(30),
     background_color   |-> PyStr("BLACK"),
     background_opacity |-> PyInt(1),
     scene_names        |-> PyStr("Default"),
     resolution         |-> [t |-> "tuple", v |-> <<854, 480>>]]

----------------------------------------------------------------------------
(* select_resolution *)

\* the quality table of the specification, highest tier first
QUALITIES ==
    << [pixel_height |-> 2160, pixel_width |-> 3840],
       [pixel_height |-> 1440, pixel_width |-> 2560],
       [pixel_height |-> 1080, pixel_width |-> 1920],
       [pixel_height |-> 720,  pixel_width |-> 1280],
       [pixel_height |-> 480,  pixel_width |-> 854] >>

Tiers == {QUALITIES[i] : i \in 1..Len(QUALITIES)}

\* every table of 1..MaxTiers tiers, in any order, repeats allowed
Tables == UNION {[1..n -> Tiers] : n \in 1..MaxTiers}

\* f"{h}p"
Label(h) == ToString(h) \o "p"

\* what a user can type at the resolution prompt
Labels == {Label(t.pixel_height) : t \in Tiers} \cup {"240p"}

\* variant: pop(0), the first entry is dropped instead of the last
resolution_options_pop_first(table) ==
    [i \in 1..(Len(table) - 1) |->
        <<table[i + 1].pixel_height, table[i + 1].pixel_width>>]

\* one (height, width) per table entry, then resolution_options.pop()
resolution_options(table) ==
    [i \in 1..(Len(table) - 1) |->
        <<table[i].pixel_height, table[i].pixel_width>>]

\* the labels click.Choice accepts
choice_labels(table) ==
    {Label(resolution_options(table)[i][1]) : i \in 1..Len(resolution_options(table))}

\* [res for res in resolution_options if f"{res[0]}p" == choice][0]
select_resolution(table, label) ==
    LET opts == resolution_options(table)
        hits == {i \in 1..Len(opts) : Label(opts[i][1]) = label}
        first == CHOOSE i \in hits : \A j \in hits : i <= j
    IN  opts[first]

\* click.prompt with click.Choice: an unlisted label is rejected and the
\* prompt is shown again; a listed one is returned
SelectResolutionStep(label) ==
    /\ choice' = label
    /\ IF label \in choice_labels(qualities)
          THEN /\ resolution' = select_resolution(qualities, label)
               /\ res_status' = "ok"
          ELSE /\ resolution' = resolution
               /\ res_status' = "InvalidChoice"

----------------------------------------------------------------------------
(* Template assets and the helpers of utils/file_ops *)

\* get_template_names()
TemplateNames == {"Default", "Graph"}

EmptyConfig == [s \in {} |-> [k \in {} |-> ""]]

\* the manim.cfg shipped with a project template
template_cfg(name) ==
    IF name = "Default"
       THEN [CLI |-> [frame_rate         |-> "15",
                      pixel_height       |-> "720",
                      pixel_width        |-> "1280",
                      background_color   |-> "WHITE",
                      background_opacity |-> "0",
                      scene_names        |-> "Template"]]
       ELSE [CLI    |-> [frame_rate |-> "15", save_last_frame |-> "True"],
             logger |-> [logging_keyword |-> "bold"]]

NoDir == [is_dir |-> FALSE, template |-> "", has_cfg |-> FALSE, cfg |-> EmptyConfig]

\* copy_template_files(project_name, template_name): the template's files,
\* its manim.cfg among them, now are in the directory
copy_template_files(dir, name) ==
    [dir EXCEPT !.template = name, !.has_cfg = TRUE, !.cfg = template_cfg(name)]

----------------------------------------------------------------------------
(* update_cfg *)

RECURSIVE write_keys(_, _, _)
\* for key, value in cfg_dict.items(): ... , from the i-th key on
write_keys(cli_config, cfg_dict, i) ==
    IF i > Len(CFG_KEYS) THEN cli_config
    ELSE LET key == CFG_KEYS[i] IN
         IF key \notin DOMAIN cfg_dict THEN write_keys(cli_config, cfg_dict, i + 1)
         ELSE LET value == cfg_dict[key] IN
              IF key = "resolution"
                 THEN write_keys(
                        SetKey(SetKey(cli_config, "pixel_height", ToString(value.v[1])),
                               "pixel_width", ToString(value.v[2])),
                        cfg_dict, i + 1)
                 ELSE write_keys(SetKey(cli_config, key, str(value)), cfg_dict, i + 1)

\* variant: a blind overwrite, only the CLI section and only the written keys
update_cfg_overwrite(cfg_dict, config) ==
    [CLI |-> write_keys([k \in {} |-> ""], cfg_dict, 1)]

\* config.read(path); cli_config = config["CLI"]; ...; config.write(conf)
update_cfg(cfg_dict, config) ==
    [config EXCEPT !["CLI"] = write_keys(config["CLI"], cfg_dict, 1)]

----------------------------------------------------------------------------
(* The project command *)

Paths == {"proj", "demo"}

\* a template name given on the command line is not checked against the registry
TemplateArgs == TemplateNames \cup {"", "Missing"}

\* the labels typed at the resolution prompt of a project run
PromptLabels == {"2160p", "720p", "480p", "240p"}

\* click.prompt(key, default=value) converts the input to the default's type
PromptValues(key) ==
    IF key = "frame_rate" THEN {PyInt(30), PyInt(60)}
    ELSE IF key = "background_color" THEN {PyStr("BLACK"), PyStr("WHITE")}
    ELSE {PyInt(1)}

NoArgs == [project_name |-> "", template_name |-> "", scene_name |-> "", file_name |-> ""]

\* the command returns (or raises): its locals are gone, the run is recorded
Finish(outcome, newdirs) ==
    /\ calls' = Append(calls, [path             |-> project_name,
                               template_arg     |-> args.template_name,
                               template_name    |-> template_name,
                               default_settings |-> default_settings,
                               confirmed        |-> confirmed,
                               outcome          |-> outcome,
                               snapshot         |-> newdirs[project_name]])
    /\ pc' = "idle"
    /\ args' = NoArgs
    /\ default_settings' = FALSE
    /\ project_name' = ""
    /\ template_name' = ""
    /\ choice' = ""
    /\ resolution' = <<0, 0>>
    /\ res_status' = "none"
    /\ new_cfg' = EmptyDict
    /\ ki' = 1
    /\ confirmed' = FALSE

ProjectInvoke(name, tmpl, dflt) ==
    /\ pc = "idle"
    /\ Len(calls) < MaxProjectRuns
    /\ args' = [NoArgs EXCEPT !.project_name = name, !.template_name = tmpl]
    /\ default_settings' = dflt
    /\ project_name' = ""
    /\ template_name' = ""
    /\ new_cfg' = EmptyDict
    /\ ki' = 1
    /\ confirmed' = FALSE
    /\ pc' = "project_name"
    /\ UNCHANGED <<qualities, res_vars, dirs, calls, ops, scene_vars>>

\* lines 98-101
ProjectName(input) ==
    /\ pc = "project_name"
    /\ project_name' = IF args.project_name # "" THEN args.project_name ELSE input
    /\ pc' = "template_name"
    /\ UNCHANGED <<qualities, res_vars, args, default_settings, template_name,
                   new_cfg, ki, confirmed, dirs, calls, ops, scene_vars>>

\* lines 103-111
ProjectTemplate(input) ==
    /\ pc = "template_name"
    /\ template_name' = IF args.template_name # "" THEN args.template_name ELSE input
    /\ pc' = "is_dir"
    /\ UNCHANGED <<qualities, res_vars, args, default_settings, project_name,
                   new_cfg, ki, confirmed, dirs, calls, ops, scene_vars>>

\* variant: a directory counts as present only once it holds its manim.cfg
is_dir_has_cfg(path) == dirs[path].has_cfg

\* Path.is_dir()
is_dir(path) == dirs[path].is_dir

\* a file-system mutation, with the config the write read (if it read one)
Op(op, path, before) == [op |-> op, path |-> path, before |-> before]

\* lines 113-122
ProjectCheckDir ==
    /\ pc = "is_dir"
    /\ IF is_dir(project_name)
          THEN /\ Finish("AlreadyExists", dirs)
               /\ UNCHANGED <<dirs, ops>>
          ELSE /\ dirs' = [dirs EXCEPT ![project_name].is_dir = TRUE]
               /\ ops' = Append(ops, Op("mkdir", project_name, EmptyConfig))
               /\ new_cfg' = EmptyDict
               /\ ki' = 1
               /\ pc' = IF default_settings THEN "copy" ELSE "cfg_loop"
               /\ UNCHANGED <<calls, args, default_settings, project_name,
                              template_name, confirmed, res_vars>>
    /\ UNCHANGED <<qualities, scene_vars>>

\* the for loop of line 123 moves to the next key, or ends
NextKey ==
    IF ki < Len(CFG_KEYS)
       THEN ki' = ki + 1 /\ pc' = "cfg_loop"
       ELSE ki' = ki /\ pc' = "confirm"

\* variant: the template name given on the command line is ignored
scene_names_value_default(a) == CFG_DEFAULTS["scene_names"]

\* lines 125-128
scene_names_value(a) ==
    IF a.template_name # "" THEN PyStr(a.template_name) ELSE CFG_DEFAULTS["scene_names"]

\* lines 124-128
ProjectSceneNames ==
    /\ pc = "cfg_loop"
    /\ CFG_KEYS[ki] = "scene_names"
    /\ new_cfg' = SetKey(new_cfg, "scene_names", scene_names_value(args))
    /\ NextKey
    /\ UNCHANGED <<qualities, res_vars, args, default_settings, project_name,
                   template_name, confirmed, dirs, calls, ops, scene_vars>>

\* lines 129-130
ProjectSelectResolution(label) ==
    /\ pc = "cfg_loop"
    /\ CFG_KEYS[ki] = "resolution"
    /\ SelectResolutionStep(label)
    /\ IF label \in choice_labels(qualities)
          THEN /\ new_cfg' = SetKey(new_cfg, "resolution",
                                    [t |-> "tuple", v |-> select_resolution(qualities, label)])
               /\ NextKey
          ELSE UNCHANGED <<new_cfg, ki, pc>>
    /\ UNCHANGED <<qualities, args, default_settings, project_name,
                   template_name, confirmed, dirs, calls, ops, scene_vars>>

\* lines 131-132
ProjectPrompt(value) ==
    /\ pc = "cfg_loop"
    /\ CFG_KEYS[ki] \notin {"scene_names", "resolution"}
    /\ value \in PromptValues(CFG_KEYS[ki])
    /\ new_cfg' = SetKey(new_cfg, CFG_KEYS[ki], value)
    /\ NextKey
    /\ UNCHANGED <<qualities, res_vars, args, default_settings, project_name,
                   template_name, confirmed, dirs, calls, ops, scene_vars>>

\* variant: click.confirm without abort=True and with its result ignored
ProjectConfirm_no_abort(answer) ==
    /\ pc = "confirm"
    /\ pc' = "copy"
    /\ confirmed' = answer
    /\ UNCHANGED <<qualities, res_vars, args, default_settings, project_name,
                   template_name, new_cfg, ki, dirs, calls, ops, scene_vars>>

\* lines 134-135: click.confirm(..., abort=True) raises Abort on "no"
ProjectConfirm(answer) ==
    /\ pc = "confirm"
    /\ IF answer
          THEN /\ pc' = "copy"
               /\ confirmed' = TRUE
               /\ UNCHANGED <<calls, args, default_settings, project_name,
                              template_name, new_cfg, ki, res_vars>>
          ELSE /\ Finish("Aborted", dirs)
    /\ UNCHANGED <<qualities, dirs, ops, scene_vars>>

\* lines 136 and 139
ProjectCopy ==
    /\ pc = "copy"
    /\ IF template_name \in TemplateNames
          THEN /\ dirs' = [dirs EXCEPT ![project_name] =
                              copy_template_files(dirs[project_name], template_name)]
               /\ ops' = Append(ops, Op("copy", project_name, EmptyConfig))
               /\ pc' = "update_cfg"
               /\ UNCHANGED <<calls, project_locals, res_vars>>
          ELSE /\ Finish("NotFound", dirs)
               /\ UNCHANGED <<dirs, ops>>
    /\ UNCHANGED <<qualities, scene_vars>>

\* lines 137 and 140
ProjectUpdateCfg ==
    /\ pc = "update_cfg"
    /\ LET cfg_dict == IF default_settings THEN CFG_DEFAULTS ELSE new_cfg
           newdirs == [dirs EXCEPT ![project_name].cfg =
                          update_cfg(cfg_dict, dirs[project_name].cfg)]
       IN  /\ dirs' = newdirs
           /\ ops' = Append(ops, Op("cfg", project_name, dirs[project_name].cfg))
           /\ Finish("Success", newdirs)
    /\ UNCHANGED <<qualities, scene_vars>>

----------------------------------------------------------------------------
(* The scene command *)

NoFile == [exists |-> FALSE, content |-> <<>>]

\* a source file that was there before the first scene run
OldFile == [exists |-> TRUE,
            content |-> <<"from manim import *\n", "class Old(Scene):\n    pass\n">>]

FilePaths == {"main.py", "extra.py"}

SceneNames == {"Intro", "Outro"}

\* the file_name argument; "" when it is not given
FileArgs == {"", "main", "extra"}

\* the text of <name>.mtp under the template root
template_body(name) ==
    IF name = "Default"
       THEN <<"class ", "DefaultTemplate", "(Scene):\n    pass\n">>
       ELSE <<"class ", "GraphTemplate", "(Scene):\n    # ", "GraphTemplate", "\n">>

\* str.replace(old, new, 1) on a text of tokens
replace_first(text, old, new) ==
    LET hits == {i \in 1..Len(text) : text[i] = old} IN
    IF hits = {} THEN text
    ELSE LET first == CHOOSE i \in hits : \A j \in hits : i <= j
         IN  [i \in 1..Len(text) |-> IF i = first THEN new ELSE text[i]]

\* lines 165-167
specialize(name, scene_name) ==
    replace_first(template_body(name), name \o "Template", scene_name)

\* "\n\n\n" + scene
separated(text) == <<"\n\n\n">> \o text

\* variant: the file is opened with "w", what it held is lost
append_text_truncate(file, text) == [exists |-> TRUE, content |-> text]

\* open(file_name, "a"); f.write(text): the file is created when it is absent
append_text(file, text) == [exists |-> TRUE, content |-> file.content \o text]

\* open(file_name, "w"); f.write(text)
write_text(text) == [exists |-> TRUE, content |-> text]

\* add_import_statement(file_name): the import line goes in front (line 178)
add_import_statement(file) ==
    [file EXCEPT !.content = <<"from manim import *\n">> \o file.content]

\* variant: the test of line 172 always fails
is_file_never(path) == FALSE

\* Path.is_file(), line 172
is_file(path) == files[path].exists

\* variant: the test of line 186 always succeeds
main_py_exists_always == TRUE

\* Path("main.py").exists(), line 186
main_py_exists == files["main.py"].exists

\* the file the run in progress is about
Target == IF args.file_name # "" THEN args.file_name \o ".py" ELSE "main.py"

\* the command returns: its locals are gone, the run is recorded
SceneFinish(outcome, after) ==
    /\ scene_calls' = Append(scene_calls, [scene_name |-> args.scene_name,
                                           file_name  |-> args.file_name,
                                           template   |-> template_name,
                                           target     |-> Target,
                                           block      |-> scene,
                                           outcome    |-> outcome,
                                           fs_after   |-> after])
    /\ pc' = "idle"
    /\ args' = NoArgs
    /\ template_name' = ""
    /\ scene' = <<>>

SceneInvoke(scene_name, file_name) ==
    /\ pc = "idle"
    /\ Len(scene_calls) < MaxSceneRuns
    /\ args' = [NoArgs EXCEPT !.scene_name = scene_name, !.file_name = file_name]
    /\ pc' = "scene_template"
    /\ UNCHANGED <<qualities, res_vars, default_settings, project_name, template_name,
                   new_cfg, ki, confirmed, dirs, calls, ops, scene_vars>>

\* lines 159-167
SceneSpecialize(input) ==
    /\ pc = "scene_template"
    /\ template_name' = input
    /\ scene' = specialize(input, args.scene_name)
    /\ pc' = "scene_target"
    /\ UNCHANGED <<qualities, res_vars, args, default_settings, project_name,
                   new_cfg, ki, confirmed, dirs, calls, ops, files, files0, scene_calls>>

\* lines 169-180 and 183-191
SceneWrite ==
    /\ pc = "scene_target"
    /\ IF args.file_name # ""
          THEN IF is_file(Target)
                  THEN LET after == [files EXCEPT ![Target] = append_text(@, separated(scene))]
                       IN  /\ files' = after
                           /\ ops' = Append(ops, Op("append", Target, EmptyConfig))
                           /\ SceneFinish("Append", after)
                  ELSE /\ files' = [files EXCEPT ![Target] = write_text(separated(scene))]
                       /\ ops' = Append(ops, Op("write", Target, EmptyConfig))
                       /\ pc' = "add_import"
                       /\ UNCHANGED <<args, template_name, scene, scene_calls>>
          ELSE IF ~main_py_exists
                  THEN /\ SceneFinish("NotAProject", files)
                       /\ UNCHANGED <<files, ops>>
                  ELSE LET after == [files EXCEPT !["main.py"] = append_text(@, separated(scene))]
                       IN  /\ files' = after
                           /\ ops' = Append(ops, Op("append", "main.py", EmptyConfig))
                           /\ SceneFinish("Append", after)
    /\ UNCHANGED <<qualities, res_vars, default_settings, project_name,
                   new_cfg, ki, confirmed, dirs, calls, files0>>

\* variant: the call of line 182 is left out, the new file is never registered
SceneAddImport_skip ==
    /\ pc = "add_import"
    /\ SceneFinish("Create", files)
    /\ UNCHANGED <<qualities, res_vars, default_settings, project_name,
                   new_cfg, ki, confirmed, dirs, calls, ops, files, files0>>

\* line 182
SceneAddImport ==
    /\ pc = "add_import"
    /\ LET after == [files EXCEPT ![Target] = add_import_statement(@)]
       IN  /\ files' = after
           /\ ops' = Append(ops, Op("register", Target, EmptyConfig))
           /\ SceneFinish("Create", after)
    /\ UNCHANGED <<qualities, res_vars, default_settings, project_name,
                   new_cfg, ki, confirmed, dirs, calls, files0>>

----------------------------------------------------------------------------
(* Specifications *)

InitCommon ==
    /\ choice = ""
    /\ resolution = <<0, 0>>
    /\ res_status = "none"
    /\ pc = "idle"
    /\ args = NoArgs
    /\ default_settings = FALSE
    /\ project_name = ""
    /\ template_name = ""
    /\ new_cfg = EmptyDict
    /\ ki = 1
    /\ confirmed = FALSE
    /\ dirs = [p \in Paths |-> NoDir]
    /\ calls = <<>>
    /\ ops = <<>>
    /\ scene = <<>>
    /\ scene_calls = <<>>

Init ==
    /\ InitCommon
    /\ qualities = QUALITIES
    /\ files = [f \in FilePaths |-> NoFile]
    /\ files0 = files

Next ==
    \/ \E name \in Paths \cup {""}, tmpl \in TemplateArgs, dflt \in BOOLEAN :
          ProjectInvoke(name, tmpl, dflt)
    \/ \E input \in Paths : ProjectName(input)
    \/ \E input \in TemplateNames : ProjectTemplate(input)
    \/ ProjectCheckDir
    \/ ProjectSceneNames
    \/ \E label \in PromptLabels : ProjectSelectResolution(label)
    \/ \E value \in PromptValues("frame_rate") \cup PromptValues("background_color")
                    \cup PromptValues("background_opacity") : ProjectPrompt(value)
    \/ \E answer \in BOOLEAN : ProjectConfirm(answer)
    \/ ProjectCopy
    \/ ProjectUpdateCfg

Spec == Init /\ [][Next]_vars

\* the scene command, run in a directory that holds any of the source files
InitScene ==
    /\ InitCommon
    /\ qualities = QUALITIES
    /\ files \in [FilePaths -> {NoFile, OldFile}]
    /\ files0 = files

NextScene ==
    \/ \E scene_name \in SceneNames, file_name \in FileArgs :
          SceneInvoke(scene_name, file_name)
    \/ \E input \in TemplateNames : SceneSpecialize(input)
    \/ SceneWrite
    \/ SceneAddImport

SpecScene == InitScene /\ [][NextScene]_vars

\* select_resolution() applied to every label, over every quality table
SelectResolutionCall(label) ==
    /\ SelectResolutionStep(label)
    /\ UNCHANGED <<qualities, pc, project_locals, dirs, calls, ops, scene_vars>>

InitRes ==
    /\ InitCommon
    /\ qualities \in Tables
    /\ files = [f \in FilePaths |-> NoFile]
    /\ files0 = files

NextRes == \E label \in Labels : SelectResolutionCall(label)

SpecRes == InitRes /\ [][NextRes]_vars

----------------------------------------------------------------------------
(* Claims about the project command *)

PersistedKeys == {"frame_rate", "background_color", "background_opacity",
                  "scene_names", "pixel_height", "pixel_width"}

\* the mutations of one path, in the order they happened
PathOps(p) == SelectSeq(ops, LAMBDA o : o.path = p)

CountOps(p, op) == Cardinality({k \in 1..Len(ops) : ops[k].path = p /\ ops[k].op = op})

MkdirOnly == [NoDir EXCEPT !.is_dir = TRUE]

\* C1: a project run on a path that already is a directory reports
\* AlreadyExists and mutates nothing: every run that follows another run on
\* the same path is refused, the directory still is what the earlier run
\* left, and no path is ever created, copied into or configured twice.
C1_RefusesExisting ==
    /\ \A i \in 1..Len(calls) :
          /\ dirs[calls[i].path] = calls[i].snapshot
          /\ (\E j \in 1..(i - 1) : calls[j].path = calls[i].path)
                => calls[i].outcome = "AlreadyExists"
    /\ \A p \in Paths : \A op \in {"mkdir", "copy", "cfg"} : CountOps(p, op) <= 1

\* C1 witness: a successful creation followed by a refused run on the same path
C1_Witness ==
    \E i \in 2..Len(calls) :
        /\ calls[i].path = calls[i - 1].path
        /\ calls[i - 1].outcome = "Success"
        /\ calls[i].outcome = "AlreadyExists"
        /\ calls[i].snapshot = calls[i - 1].snapshot

\* C4: a successful run with --default persists frame_rate=30,
\* background_color=BLACK, background_opacity=1, scene_names=Default,
\* pixel_height=480 and pixel_width=854.
C4_DefaultsPersisted ==
    \A i \in 1..Len(calls) :
        (calls[i].outcome = "Success" /\ calls[i].default_settings) =>
            LET cli == calls[i].snapshot.cfg["CLI"] IN
            /\ PersistedKeys \subseteq DOMAIN cli
            /\ cli["frame_rate"] = "30"
            /\ cli["background_color"] = "BLACK"
            /\ cli["background_opacity"] = "1"
            /\ cli["scene_names"] = "Default"
            /\ cli["pixel_height"] = "480"
            /\ cli["pixel_width"] = "854"

\* C7 as stated: in every successful creation with a template name given on
\* the command line the persisted scene_names is that name, with or without
\* --default; without one it is "Default".
C7_SceneNamesFollowsTemplateArg ==
    \A i \in 1..Len(calls) :
        calls[i].outcome = "Success" =>
            calls[i].snapshot.cfg["CLI"]["scene_names"] =
                (IF calls[i].template_arg # "" THEN calls[i].template_arg ELSE "Default")

\* C7 amended: in every successful creation without --default and with a
\* template name given on the command line the persisted scene_names is that
\* name; with --default, or with no template name given, it is "Default".
C7_SceneNamesInteractive ==
    \A i \in 1..Len(calls) :
        calls[i].outcome = "Success" =>
            calls[i].snapshot.cfg["CLI"]["scene_names"] =
                (IF calls[i].template_arg # "" /\ ~calls[i].default_settings
                    THEN calls[i].template_arg ELSE "Default")

\* C7 witness: an interactive creation with the template named on the command line
C7_Witness ==
    \E i \in 1..Len(calls) :
        /\ calls[i].outcome = "Success"
        /\ calls[i].template_arg = "Graph"
        /\ ~calls[i].default_settings
        /\ calls[i].snapshot.cfg["CLI"]["scene_names"] = "Graph"

\* C8: after every configuration write the CLI section holds the six
\* persisted keys and no resolution key, and every section and every other
\* key the file held before the write is still there with its value.
C8_ConfigSchema ==
    \A k \in 1..Len(ops) :
        ops[k].op = "cfg" =>
            LET before == ops[k].before
                cfg == dirs[ops[k].path].cfg
            IN  /\ "CLI" \in DOMAIN cfg
                /\ PersistedKeys \subseteq DOMAIN cfg["CLI"]
                /\ "resolution" \notin DOMAIN cfg["CLI"]
                /\ \A s \in DOMAIN before :
                      /\ s \in DOMAIN cfg
                      /\ \A key \in DOMAIN before[s] \ PersistedKeys :
                            /\ key \in DOMAIN cfg[s]
                            /\ cfg[s][key] = before[s][key]

\* C8 witness: a write over a file that had another section and another CLI key
C8_Witness ==
    \E k \in 1..Len(ops) :
        /\ ops[k].op = "cfg"
        /\ "logger" \in DOMAIN ops[k].before
        /\ "save_last_frame" \in DOMAIN ops[k].before["CLI"]
        /\ ~(PersistedKeys \subseteq DOMAIN ops[k].before["CLI"])

\* C9: on every path the mutations are mkdir, then the template copy, then
\* the configuration write; copy and write happen only after the
\* confirmation was given or with --default; a declined confirmation ends
\* the run with the directory created and nothing in it.
C9_StepOrdering ==
    /\ \A p \in Paths :
          /\ Len(PathOps(p)) <= 3
          /\ \A k \in 1..Len(PathOps(p)) : PathOps(p)[k].op = <<"mkdir", "copy", "cfg">>[k]
          /\ dirs[p].is_dir <=> CountOps(p, "mkdir") = 1
          /\ dirs[p].has_cfg <=> CountOps(p, "copy") = 1
    /\ \A i \in 1..Len(calls) :
          /\ calls[i].outcome = "Success" =>
                (calls[i].default_settings \/ calls[i].confirmed)
          /\ calls[i].outcome = "Aborted" =>
                (calls[i].snapshot = MkdirOnly /\ ~calls[i].confirmed)
    /\ pc \in {"cfg_loop", "confirm"} => (dirs[project_name] = MkdirOnly /\ ~confirmed)
    /\ pc \in {"copy", "update_cfg"} => (default_settings \/ confirmed)
    /\ pc = "copy" => dirs[project_name] = MkdirOnly
    /\ pc = "update_cfg" => CountOps(project_name, "cfg") = 0

\* C9 witness: a run whose confirmation was declined
C9_Witness ==
    \E i \in 1..Len(calls) :
        /\ calls[i].outcome = "Aborted"
        /\ dirs[calls[i].path] = MkdirOnly

----------------------------------------------------------------------------
(* Claims about the scene command *)

\* the files as the i-th scene run found them
Before(i) == IF i = 1 THEN files0 ELSE scene_calls[i - 1].fs_after

Written(i) == scene_calls[i].outcome \in {"Create", "Append"}

\* C2: a scene run whose target file exists (a named file, or main.py when
\* no name is given) ends with that file holding its prior content, then the
\* separator, then the specialized block; no other file changes, and nothing
\* changes the file between runs.
C2_AppendPreserves ==
    /\ \A i \in 1..Len(scene_calls) :
          LET c == scene_calls[i] IN
          Before(i)[c.target].exists =>
             /\ c.outcome = "Append"
             /\ c.block = specialize(c.template, c.scene_name)
             /\ c.fs_after[c.target].exists
             /\ c.fs_after[c.target].content =
                   Before(i)[c.target].content \o <<"\n\n\n">> \o c.block
             /\ \A f \in FilePaths \ {c.target} : c.fs_after[f] = Before(i)[f]
    /\ pc \in {"idle", "scene_template", "scene_target"} =>
          files = Before(Len(scene_calls) + 1)

\* C2 witness: an append to main.py, no name given, below what main.py held
C2_Witness ==
    \E i \in 1..Len(scene_calls) :
        /\ scene_calls[i].outcome = "Append"
        /\ scene_calls[i].file_name = ""
        /\ Len(Before(i)["main.py"].content) > 0
        /\ Len(scene_calls[i].fs_after["main.py"].content) >
              Len(Before(i)["main.py"].content) + 1

\* C3: a scene run without a file name never creates a file, and when
\* main.py is absent it ends NotAProject with every file as it was.
C3_NoNameNoCreate ==
    /\ \A i \in 1..Len(scene_calls) :
          LET c == scene_calls[i] IN
          c.file_name = "" =>
             /\ \A f \in FilePaths : c.fs_after[f].exists = Before(i)[f].exists
             /\ ~Before(i)["main.py"].exists =>
                   (c.outcome = "NotAProject" /\ c.fs_after = Before(i))
    /\ (pc # "idle" /\ args.file_name = "") => files = Before(Len(scene_calls) + 1)

\* C3 witness: a run without a file name where main.py is absent
C3_Witness ==
    \E i \in 1..Len(scene_calls) :
        /\ scene_calls[i].file_name = ""
        /\ scene_calls[i].outcome = "NotAProject"
        /\ ~files["main.py"].exists

\* C5: a scene run with a file name whose file is absent writes separator +
\* block as the whole of the new file, then registers that file once; the
\* registration directly follows the write and works on exactly that
\* content, and no other file changes.
C5_CreateThenRegister ==
    /\ \A i \in 1..Len(scene_calls) :
          LET c == scene_calls[i] IN
          (c.file_name # "" /\ ~Before(i)[c.target].exists) =>
             /\ c.outcome = "Create"
             /\ c.target = c.file_name \o ".py"
             /\ c.fs_after[c.target] =
                   add_import_statement([exists  |-> TRUE,
                                         content |-> <<"\n\n\n">> \o c.block])
             /\ \A f \in FilePaths \ {c.target} : c.fs_after[f] = Before(i)[f]
    /\ pc = "add_import" =>
          /\ files[Target] = [exists |-> TRUE, content |-> <<"\n\n\n">> \o scene]
          /\ \A f \in FilePaths \ {Target} : files[f] = Before(Len(scene_calls) + 1)[f]
    /\ \A k \in 1..Len(ops) :
          /\ ops[k].op = "register" =>
                (k > 1 /\ ops[k - 1].op = "write" /\ ops[k - 1].path = ops[k].path)
          /\ ops[k].op = "write" =>
                IF k < Len(ops)
                   THEN ops[k + 1].op = "register" /\ ops[k + 1].path = ops[k].path
                   ELSE pc = "add_import" /\ Target = ops[k].path

\* C5 witness: extra.py created and registered
C5_Witness ==
    \E i \in 1..Len(scene_calls) :
        /\ scene_calls[i].outcome = "Create"
        /\ scene_calls[i].file_name = "extra"
        /\ ~Before(i)["extra.py"].exists
        /\ CountOps("extra.py", "register") = 1

RECURSIVE Entries(_, _, _)
\* separator + block of every run after run lo, up to run i, that wrote to file f
Entries(f, lo, i) ==
    IF i <= lo THEN <<>>
    ELSE Entries(f, lo, i - 1) \o
         (IF scene_calls[i].target = f /\ Written(i)
             THEN <<"\n\n\n">> \o specialize(scene_calls[i].template, scene_calls[i].scene_name)
             ELSE <<>>)

\* C10: for a file absent at the start, the first run that writes to it
\* takes the Create path and every later one the Append path; the file then
\* holds the first run's registered separator + block followed by one
\* separator + block per later run, in run order, and was registered
\* exactly once.
C10_RepeatedInsertion ==
    \A f \in FilePaths :
        LET runs == {i \in 1..Len(scene_calls) : scene_calls[i].target = f /\ Written(i)} IN
        (~files0[f].exists /\ pc = "idle" /\ runs # {}) =>
           LET first == CHOOSE i \in runs : \A j \in runs : i <= j
               created == add_import_statement(
                             [exists |-> TRUE, content |-> Entries(f, first - 1, first)])
           IN
           /\ \A i \in runs :
                 /\ scene_calls[i].file_name # "" \/ i # first
                 /\ scene_calls[i].outcome = (IF i = first THEN "Create" ELSE "Append")
           /\ files[f].exists
           /\ files[f].content = created.content \o Entries(f, first, Len(scene_calls))
           /\ Cardinality({k \in 1..Len(files[f].content) : files[f].content[k] = "\n\n\n"})
                 = Cardinality(runs)
           /\ CountOps(f, "register") = 1
           /\ CountOps(f, "write") = 1
           /\ CountOps(f, "append") = Cardinality(runs) - 1

\* C10 witness: the same scene inserted twice into extra.py, absent at the start
C10_Witness ==
    /\ pc = "idle"
    /\ ~files0["extra.py"].exists
    /\ \E i, j \in 1..Len(scene_calls) :
          /\ i < j
          /\ scene_calls[i].file_name = "extra" /\ scene_calls[j].file_name = "extra"
          /\ scene_calls[i].scene_name = scene_calls[j].scene_name
          /\ scene_calls[i].template = scene_calls[j].template
          /\ scene_calls[i].outcome = "Create" /\ scene_calls[j].outcome = "Append"

----------------------------------------------------------------------------
(* Claims about select_resolution *)

\* the greatest height of the table
MaxHeight(table) ==
    CHOOSE h \in {table[i].pixel_height : i \in 1..Len(table)} :
        \A i \in 1..Len(table) : table[i].pixel_height <= h

\* the table has a single highest tier
SingleHighest(table) ==
    Cardinality({i \in 1..Len(table) : table[i].pixel_height = MaxHeight(table)}) = 1

====
